---- MODULE Spec2Model ----
(***************************************************************************)
(* Airline booking demand dashboard (src/app.py).                          *)
(*                                                                         *)
(* The script is re-executed top to bottom on every interaction: main()    *)
(* loads the booking table through the cached load_data(), filters it by   *)
(* the sidebar criteria and renders three aggregates.  A DataFrame is      *)
(* modelled as a record [columns, rows]: columns says whether the frame    *)
(* has the named columns at all (pd.DataFrame() has none), rows is the     *)
(* sequence of its rows in index order.  Prices are exact numbers and a    *)
(* mean is the exact rational sum/count in lowest terms.                   *)
(***************************************************************************)
EXTENDS Integers, Sequences, FiniteSets, TLC

VARIABLES
    file,                 \* airline_data.csv on disk
    cache,                \* st.cache_data entry of load_data: <<>> or <<frame>>
    reads,                \* how many times pd.read_csv was attempted
    runs,                 \* executions of main() started so far
    pc,                   \* position of the current execution of main()
    messages,             \* st.error / st.warning texts shown in this execution
    df,                   \* the loaded table of this execution
    selected_origin,      \* sidebar select box
    selected_destination, \* sidebar select box
    date_range,           \* sidebar date input: a tuple of 0, 1 or 2 dates
    top_n,                \* argument of get_popular_routes
    filtered_df,          \* the filtered view
    popular_routes,       \* result of get_popular_routes
    price_trends,         \* result of analyze_price_trends
    demand_analysis,      \* result of identify_high_demand_periods
    invoked,              \* aggregators, chart builders and export called in this execution
    sorted_before         \* what get_popular_routes has returned in this execution, by input

vars == <<file, cache, reads, runs, pc, messages, df, selected_origin,
          selected_destination, date_range, top_n, filtered_df,
          popular_routes, price_trends, demand_analysis, invoked,
          sorted_before>>

----------------------------------------------------------------------------
(* Bounds of the model *)

\* longest table (rows of airline_data.csv) explored
MaxRows == 3
\* largest explicit top_n explored besides the default
MaxTopN == 3
\* executions of main() in one process
MaxRuns == 2

\* get_popular_routes(df, top_n=10)
DefaultTopN == 10

----------------------------------------------------------------------------
(* Sequences *)

Range(s) == {s[i] : i \in 1..Len(s)}

Min2(a, b) == IF a <= b THEN a ELSE b

Max2(a, b) == IF a >= b THEN a ELSE b

\* the sum, least and greatest of a sequence of numbers
RECURSIVE Sum(_)
Sum(s) == IF s = <<>> THEN 0 ELSE Head(s) + Sum(Tail(s))

RECURSIVE MinOf(_)
MinOf(s) == IF Len(s) = 1 THEN s[1] ELSE Min2(Head(s), MinOf(Tail(s)))

RECURSIVE MaxOf(_)
MaxOf(s) == IF Len(s) = 1 THEN s[1] ELSE Max2(Head(s), MaxOf(Tail(s)))

\* the distinct values of s, in order of first appearance
RECURSIVE Unique(_)
Unique(s) ==
    IF s = <<>> THEN <<>>
    ELSE LET rest == Unique(SubSeq(s, 1, Len(s) - 1))
             v    == s[Len(s)]
         IN  IF v \in Range(rest) THEN rest ELSE Append(rest, v)

\* lexicographic order on equally long sequences of numbers (character codes)
RECURSIVE LexLess(_, _)
LexLess(a, b) ==
    IF a = <<>> \/ b = <<>> THEN a = <<>> /\ b # <<>>
    ELSE IF Head(a) # Head(b) THEN Head(a) < Head(b)
         ELSE LexLess(Tail(a), Tail(b))

\* the pairs of positions of s
Pairs(s) == (1..Len(s)) \X (1..Len(s))

\* all orderings of the rows of s that respect a sort order, given as the
\* set of pairs <<i, j>> of positions such that s[i] may come right before
\* s[j]: the results a sort by that order can give
Orderings(s, inOrder) ==
    LET n == Len(s)
        perms == {p \in [1..n -> 1..n] : \A i, j \in 1..n : i # j => p[i] # p[j]}
    IN  {[i \in 1..n |-> s[p[i]]] : p \in
            {q \in perms : \A i \in 1..(n - 1) : <<q[i], q[i + 1]>> \in inOrder}}

----------------------------------------------------------------------------
(* Numbers *)

RECURSIVE GCD(_, _)
GCD(a, b) == IF b = 0 THEN a ELSE GCD(b, a % b)

\* the mean sum/n as an exact rational in lowest terms (n > 0, sum >= 0)
Mean(sum, n) ==
    LET g == GCD(sum, n) IN [num |-> sum \div g, den |-> n \div g]

----------------------------------------------------------------------------
(* Dates and the columns load_data derives *)

\* a calendar date is <<year, month, day>>
DateLeq(a, b) ==
    \/ a[1] < b[1]
    \/ a[1] = b[1] /\ a[2] < b[2]
    \/ a[1] = b[1] /\ a[2] = b[2] /\ a[3] <= b[3]

\* Series.dt.day_name(): the English weekday name of a date
day_order == <<"Monday", "Tuesday", "Wednesday", "Thursday", "Friday",
               "Saturday", "Sunday">>

MonthOffset == <<0, 3, 2, 5, 0, 3, 5, 1, 4, 6, 2, 4>>

\* 0 = Monday ... 6 = Sunday (datetime.weekday)
Weekday(d) ==
    LET y == IF d[2] < 3 THEN d[1] - 1 ELSE d[1]
        s == (y + (y \div 4) - (y \div 100) + (y \div 400) + MonthOffset[d[2]] + d[3]) % 7
    IN  (s + 6) % 7

day_name(d) == day_order[Weekday(d) + 1]

\* Series.dt.strftime('%Y-%m'): the label as its character codes,
\* four digits of the year, '-', two digits of the month
Digit(n) == 48 + n

strftime_Ym(d) ==
    << Digit(d[1] \div 1000), Digit((d[1] \div 100) % 10),
       Digit((d[1] \div 10) % 10), Digit(d[1] % 10),
       45,
       Digit(d[2] \div 10), Digit(d[2] % 10) >>

\* df['origin'] + ' -> ' + df['destination'] (the separator is ' → ')
RouteOf(origin, destination) == <<origin, " → ", destination>>

\* lines 56-63 of load_data applied to one parsed row of the file
DeriveColumns(r) ==
    [ booking_id     |-> r.booking_id,
      origin         |-> r.origin,
      destination    |-> r.destination,
      departure_date |-> r.departure_date,
      booking_date   |-> r.booking_date,
      price          |-> r.price,
      passengers     |-> r.passengers,
      route          |-> RouteOf(r.origin, r.destination),
      month          |-> strftime_Ym(r.departure_date),
      day_of_week    |-> day_name(r.departure_date) ]

\* a DataFrame: whether it has the named columns, and its rows in index order
Frame(rows) == [columns |-> TRUE, rows |-> rows]

\* pd.DataFrame(): no columns, no rows
EmptyFrame == [columns |-> FALSE, rows |-> <<>>]

\* DataFrame.empty
IsEmpty(frame) == ~frame.columns \/ frame.rows = <<>>

----------------------------------------------------------------------------
(* The input file *)

\* rows a file may hold, every cell present (no NaN); airline and
\* aircraft_type take no part in the filter or the aggregates and are left
\* out.  The last row breaks the data model: origin = destination, price 0,
\* no passenger, booked after departure.
CsvRows ==
    { [booking_id |-> "B1", origin |-> "Sydney", destination |-> "Melbourne",
       departure_date |-> <<2024, 1, 1>>, booking_date |-> <<2023, 12, 31>>,
       price |-> 200, passengers |-> 1],
      [booking_id |-> "B2", origin |-> "Sydney", destination |-> "Melbourne",
       departure_date |-> <<2024, 2, 3>>, booking_date |-> <<2024, 1, 1>>,
       price |-> 220, passengers |-> 2],
      [booking_id |-> "B3", origin |-> "Perth", destination |-> "Sydney",
       departure_date |-> <<2023, 12, 31>>, booking_date |-> <<2023, 12, 31>>,
       price |-> 300, passengers |-> 1],
      [booking_id |-> "B4", origin |-> "Melbourne", destination |-> "Sydney",
       departure_date |-> <<2024, 1, 9>>, booking_date |-> <<2024, 1, 1>>,
       price |-> 250, passengers |-> 2],
      [booking_id |-> "B5", origin |-> "Perth", destination |-> "Perth",
       departure_date |-> <<2024, 2, 3>>, booking_date |-> <<2024, 2, 5>>,
       price |-> 0, passengers |-> 0] }

\* tables of at most n rows
RowSeqs(n) == UNION {[1..k -> CsvRows] : k \in 0..n}

\* the states of airline_data.csv: absent, not parsable as CSV, lacking a
\* needed column, holding a cell pd.to_datetime rejects, or well formed
Files ==
    {[state |-> s, rows |-> <<>>] :
        s \in {"absent", "unparsable", "no_column", "bad_date"}}
    \cup {[state |-> "ok", rows |-> rows] : rows \in RowSeqs(MaxRows)}

FileNotFoundMessage == "airline_data.csv file not found"

LoadErrorMessage == "Error loading data"

\* lines 54-65, the try block of load_data: the exception it raises, or the
\* frame it builds
TryBlock(f) ==
    IF f.state = "absent" THEN [raised |-> "FileNotFoundError", frame |-> EmptyFrame]
    ELSE IF f.state = "unparsable" THEN [raised |-> "ParserError", frame |-> EmptyFrame]
    ELSE IF f.state = "no_column" THEN [raised |-> "KeyError", frame |-> EmptyFrame]
    ELSE IF f.state = "bad_date" THEN [raised |-> "ValueError", frame |-> EmptyFrame]
    ELSE [raised |-> "",
          frame  |-> Frame([i \in 1..Len(f.rows) |-> DeriveColumns(f.rows[i])])]

\* the classes `except Exception` catches
ExceptionClasses == {"FileNotFoundError", "ParserError", "KeyError", "ValueError"}

\* load_data with the FileNotFoundError handler alone
load_data_one_handler(f) ==
    LET try == TryBlock(f)
    IN  IF try.raised = ""
          THEN [frame |-> try.frame, error |-> "", escaped |-> ""]
        ELSE IF try.raised = "FileNotFoundError"
          THEN [frame |-> EmptyFrame, error |-> FileNotFoundMessage, escaped |-> ""]
        ELSE [frame |-> EmptyFrame, error |-> "", escaped |-> try.raised]

\* lines 52-71, load_data: the frame it returns, the st.error it shows, and
\* the exception that leaves it, if any
load_data(f) ==
    LET try == TryBlock(f)
    IN  IF try.raised = ""
          THEN [frame |-> try.frame, error |-> "", escaped |-> ""]
        ELSE IF try.raised = "FileNotFoundError"
          THEN [frame |-> EmptyFrame, error |-> FileNotFoundMessage, escaped |-> ""]
        ELSE IF try.raised \in ExceptionClasses
          THEN [frame |-> EmptyFrame, error |-> LoadErrorMessage, escaped |-> ""]
        ELSE [frame |-> EmptyFrame, error |-> "", escaped |-> try.raised]

----------------------------------------------------------------------------
(* Ordering of strings *)

\* the strings of the model in ascending str order (Python compares code
\* points; none of them is a prefix of another)
StrOrder == <<"Friday", "Melbourne", "Monday", "Perth", "Saturday", "Sunday",
              "Sydney", "Thursday", "Tuesday", "Wednesday">>

StrRank(s) == CHOOSE i \in 1..Len(StrOrder) : StrOrder[i] = s

StrLess(a, b) == StrRank(a) < StrRank(b)

\* order of two route labels: both hold the same separator, so the origins
\* decide and then the destinations
RouteLess(a, b) ==
    \/ StrLess(a[1], b[1])
    \/ a[1] = b[1] /\ StrLess(a[3], b[3])

\* position of a weekday name in the categories of pd.Categorical
CategoryCode(name) == CHOOSE i \in 1..Len(day_order) : day_order[i] = name

----------------------------------------------------------------------------
(* groupby, agg, sort_values, head *)

\* the rows of a frame whose column col holds key
GroupRows(rows, col, key) == SelectSeq(rows, LAMBDA r : r[col] = key)

\* the column col of rows
Column(rows, col) == [i \in 1..Len(rows) |-> rows[i][col]]

\* the only ordering of distinct keys that ascends by Less: groupby sorts
\* its group keys (sort=True)
SortedKeys(keys, less) ==
    CHOOSE o \in Orderings(keys, less) : TRUE

\* the ascending orders of str keys, of route labels and of month labels
StrAscending(keys) == {p \in Pairs(keys) : StrLess(keys[p[1]], keys[p[2]])}

RouteAscending(keys) == {p \in Pairs(keys) : RouteLess(keys[p[1]], keys[p[2]])}

LabelAscending(keys) == {p \in Pairs(keys) : LexLess(keys[p[1]], keys[p[2]])}

\* a truncation that keeps the last n rows (DataFrame.tail)
tail(rows, n) ==
    IF n >= 0 THEN SubSeq(rows, Len(rows) - Min2(n, Len(rows)) + 1, Len(rows))
    ELSE SubSeq(rows, Min2(0 - n, Len(rows)) + 1, Len(rows))

\* DataFrame.head(n): the first n rows, or all but the last -n when n < 0
head(rows, n) ==
    IF n >= 0 THEN SubSeq(rows, 1, Min2(n, Len(rows)))
    ELSE SubSeq(rows, 1, Max2(Len(rows) + n, 0))

\* what a call returned: the rows of the result frame, or the exception
Returned(rows) == [called |-> TRUE, raised |-> "", rows |-> rows]

Raised(exc) == [called |-> TRUE, raised |-> exc, rows |-> <<>>]

NotCalled == [called |-> FALSE, raised |-> "", rows |-> <<>>]

\* route groups whose passengers are counted ('count') instead of summed
RouteGroupsCountingPassengers(rows) ==
    LET k    == Unique(Column(rows, "route"))
        keys == SortedKeys(k, RouteAscending(k))
    IN  [i \in 1..Len(keys) |->
            LET g == GroupRows(rows, "route", keys[i])
            IN  [ Route            |-> keys[i],
                  Total_Bookings   |-> Len(Column(g, "booking_id")),
                  Average_Price    |-> Mean(Sum(Column(g, "price")), Len(g)),
                  Total_Passengers |-> Len(Column(g, "passengers")) ]]

\* lines 84-90: one row per route, in ascending order of the route label
RouteGroups(rows) ==
    LET k    == Unique(Column(rows, "route"))
        keys == SortedKeys(k, RouteAscending(k))
    IN  [i \in 1..Len(keys) |->
            LET g == GroupRows(rows, "route", keys[i])
            IN  [ Route            |-> keys[i],
                  Total_Bookings   |-> Len(Column(g, "booking_id")),
                  Average_Price    |-> Mean(Sum(Column(g, "price")), Len(g)),
                  Total_Passengers |-> Sum(Column(g, "passengers")) ]]

\* the sort with ascending=True
ByBookingsAscending(a, b) == a.Total_Bookings <= b.Total_Bookings

\* line 91: sort_values('Total_Bookings', ascending=False) with the default
\* kind='quicksort', which is not stable: rows with equal Total_Bookings
\* may come out in any order
ByBookingsDescending(a, b) == a.Total_Bookings >= b.Total_Bookings

\* the results get_popular_routes(df, top_n) can return
get_popular_routes(frame, n) ==
    IF ~frame.columns THEN {Raised("KeyError")}
    ELSE LET grouped == RouteGroups(frame.rows)
             order   == {p \in Pairs(grouped) :
                            ByBookingsDescending(grouped[p[1]], grouped[p[2]])}
         IN  {Returned(head(sorted, n)) : sorted \in Orderings(grouped, order)}

\* the month sort with ascending=False
MonthGeq(a, b) == a.Month = b.Month \/ LexLess(b.Month, a.Month)

\* line 112: sort_values('Month') compares the labels as strings
MonthLeq(a, b) == a.Month = b.Month \/ LexLess(a.Month, b.Month)

\* lines 105-111: one row per month label, in ascending order of the label
MonthGroups(rows) ==
    LET k    == Unique(Column(rows, "month"))
        keys == SortedKeys(k, LabelAscending(k))
    IN  [i \in 1..Len(keys) |->
            LET g == GroupRows(rows, "month", keys[i])
            IN  [ Month         |-> keys[i],
                  Average_Price |-> Mean(Sum(Column(g, "price")), Len(g)),
                  Min_Price     |-> MinOf(Column(g, "price")),
                  Max_Price     |-> MaxOf(Column(g, "price")),
                  Booking_Count |-> Len(Column(g, "booking_id")) ]]

\* the results analyze_price_trends(df) can return
analyze_price_trends(frame) ==
    IF ~frame.columns THEN {Raised("KeyError")}
    ELSE LET grouped == MonthGroups(frame.rows)
             order   == {p \in Pairs(grouped) :
                            MonthLeq(grouped[p[1]], grouped[p[2]])}
         IN  {Returned(sorted) : sorted \in Orderings(grouped, order)}

\* lines 127-133: one row per weekday name, in ascending str order of the name
DayGroups(rows) ==
    LET k    == Unique(Column(rows, "day_of_week"))
        keys == SortedKeys(k, StrAscending(k))
    IN  [i \in 1..Len(keys) |->
            LET g == GroupRows(rows, "day_of_week", keys[i])
            IN  [ Day_of_Week      |-> keys[i],
                  Total_Bookings   |-> Len(Column(g, "booking_id")),
                  Total_Passengers |-> Sum(Column(g, "passengers")),
                  Average_Price    |-> Mean(Sum(Column(g, "price")), Len(g)) ]]

\* the sort of the plain names, without the categorical of line 137
ByName(a, b) == a.Day_of_Week = b.Day_of_Week \/ StrLess(a.Day_of_Week, b.Day_of_Week)

\* lines 136-138: the names become an ordered categorical and the rows are
\* sorted by category code
ByCategory(a, b) == CategoryCode(a.Day_of_Week) <= CategoryCode(b.Day_of_Week)

\* the results identify_high_demand_periods(df) can return
identify_high_demand_periods(frame) ==
    IF ~frame.columns THEN {Raised("KeyError")}
    ELSE LET grouped == DayGroups(frame.rows)
             order   == {p \in Pairs(grouped) :
                            ByCategory(grouped[p[1]], grouped[p[2]])}
         IN  {Returned(sorted) : sorted \in Orderings(grouped, order)}

----------------------------------------------------------------------------
(* The sidebar and the filter of main *)

\* lines 319 and 327: 'All' followed by the sorted distinct values
origins(frame) ==
    LET k == Unique(Column(frame.rows, "origin"))
    IN  <<"All">> \o SortedKeys(k, StrAscending(k))

destinations(frame) ==
    LET k == Unique(Column(frame.rows, "destination"))
    IN  <<"All">> \o SortedKeys(k, StrAscending(k))

\* lines 335-336: the earliest and the latest departure date
min_date(frame) ==
    CHOOSE d \in Range(Column(frame.rows, "departure_date")) :
        \A e \in Range(Column(frame.rows, "departure_date")) : DateLeq(d, e)

max_date(frame) ==
    CHOOSE d \in Range(Column(frame.rows, "departure_date")) :
        \A e \in Range(Column(frame.rows, "departure_date")) : DateLeq(e, d)

\* the days the user can click in the date picker
CalendarDates ==
    {r.departure_date : r \in CsvRows} \cup {<<2024, 1, 5>>}

\* lines 338-344: what st.date_input can return for a range input: nothing
\* picked, only a start picked, or a start and an end not before it, all
\* within [min_value, max_value]
DateInputs(frame) ==
    LET days == {d \in CalendarDates :
                    DateLeq(min_date(frame), d) /\ DateLeq(d, max_date(frame))}
    IN  {<<>>} \cup {<<d>> : d \in days}
        \cup {<<p[1], p[2]>> : p \in {q \in days \X days : DateLeq(q[1], q[2])}}

\* a filter whose destination mask is applied to the whole table instead of
\* the origin-filtered view, and whose end date is exclusive
ApplyFiltersOverwriting(frame, o, d, dr) ==
    LET copy   == frame.rows
        byO    == IF o # "All"
                    THEN SelectSeq(copy, LAMBDA r : r.origin = o)
                    ELSE copy
        byD    == IF d # "All"
                    THEN SelectSeq(copy, LAMBDA r : r.destination = d)
                    ELSE byO
        byDate == IF Len(dr) = 2
                    THEN SelectSeq(byD, LAMBDA r :
                            DateLeq(dr[1], r.departure_date)
                            /\ DateLeq(r.departure_date, dr[2])
                            /\ r.departure_date # dr[2])
                    ELSE byD
    IN  [columns |-> frame.columns, rows |-> byDate]

\* a filter that returns the matching rows latest first
ApplyFiltersReversed(frame, o, d, dr) ==
    LET kept == SelectSeq(frame.rows, LAMBDA r :
                    /\ o = "All" \/ r.origin = o
                    /\ d = "All" \/ r.destination = d
                    /\ Len(dr) # 2 \/ (DateLeq(dr[1], r.departure_date)
                                       /\ DateLeq(r.departure_date, dr[2])))
    IN  [columns |-> frame.columns,
         rows    |-> [i \in 1..Len(kept) |-> kept[Len(kept) + 1 - i]]]

\* a filter that takes a lone start date as the range [start, start]
ApplyFiltersSingleDate(frame, o, d, dr) ==
    LET lo == IF Len(dr) >= 1 THEN dr[1] ELSE <<0, 0, 0>>
        hi == IF Len(dr) = 2 THEN dr[2] ELSE lo
    IN  [columns |-> frame.columns,
         rows    |-> SelectSeq(frame.rows, LAMBDA r :
                        /\ o = "All" \/ r.origin = o
                        /\ d = "All" \/ r.destination = d
                        /\ Len(dr) = 0 \/ (DateLeq(lo, r.departure_date)
                                           /\ DateLeq(r.departure_date, hi)))]

\* lines 347-360: the filtered view of a frame
ApplyFilters(frame, o, d, dr) ==
    LET copy   == frame.rows
        byO    == IF o # "All"
                    THEN SelectSeq(copy, LAMBDA r : r.origin = o)
                    ELSE copy
        byD    == IF d # "All"
                    THEN SelectSeq(byO, LAMBDA r : r.destination = d)
                    ELSE byO
        byDate == IF Len(dr) = 2
                    THEN SelectSeq(byD, LAMBDA r :
                            DateLeq(dr[1], r.departure_date)
                            /\ DateLeq(r.departure_date, dr[2]))
                    ELSE byD
    IN  [columns |-> frame.columns, rows |-> byDate]

NoDataMessage == "No data available"

NoMatchMessage == "No data matches your filter criteria"

\* a filter that drops the unselected rows from the loaded table itself
SourceFilteredInPlace(frame, o, d, dr) == ApplyFilters(frame, o, d, dr)

\* lines 346-360: the loaded table after the filters have run: line 347
\* copies df, and lines 350, 353 and 357 bind filtered_df to the new frame a
\* boolean mask returns
SourceAfterFilters(frame, o, d, dr) == frame

\* lines 84-93: the argument of get_popular_routes after the call: groupby,
\* agg, round, reset_index, sort_values and head each return a new frame
InputAfterGetPopularRoutes(frame) == frame

\* lines 105-114: the argument of analyze_price_trends after the call
InputAfterAnalyzePriceTrends(frame) == frame

\* lines 127-140: the argument of identify_high_demand_periods after the
\* call: line 137 assigns the Categorical to a column of dow_demand, the
\* frame that groupby built at lines 127-131
InputAfterIdentifyHighDemandPeriods(frame) == frame

\* line 93 within one execution: the sort is a function of its input, so a
\* call that was made before returns what it returned then; a new call
\* returns one of the orders the sort may produce
SortedByThisBuild(frame, n, before) ==
    LET known == {b \in before : b.frame = frame /\ b.n = n}
    IN  IF known # {} THEN {b.result : b \in known}
                      ELSE get_popular_routes(frame, n)

----------------------------------------------------------------------------
(* Executions of main in one process *)

Init ==
    /\ file \in Files
    /\ cache = <<>>
    /\ reads = 0
    /\ runs = 1
    /\ pc = "start"
    /\ messages = {}
    /\ df = EmptyFrame
    /\ selected_origin = "All"
    /\ selected_destination = "All"
    /\ date_range = <<>>
    /\ top_n = DefaultTopN
    /\ filtered_df = EmptyFrame
    /\ popular_routes = NotCalled
    /\ price_trends = NotCalled
    /\ demand_analysis = NotCalled
    /\ invoked = {}
    /\ sorted_before = {}

\* the load step without the st.cache_data decorator: every execution runs
\* the body of load_data
LoadDataUncached ==
    /\ pc = "start"
    /\ LET result == load_data(file)
       IN  /\ reads' = reads + 1
           /\ pc' = "loaded"
           /\ cache' = <<result>>
           /\ df' = result.frame
           /\ messages' = IF result.error = "" THEN {} ELSE {result.error}
    /\ UNCHANGED <<file, runs, selected_origin, selected_destination, date_range,
                   top_n, filtered_df, popular_routes, price_trends,
                   demand_analysis, invoked, sorted_before>>

\* lines 297-299 with the st.cache_data wrapper of line 43: the body runs on
\* a miss, and its result and its st.error are stored and replayed on a hit;
\* an exception that leaves load_data ends the execution and stores nothing
LoadData ==
    /\ pc = "start"
    /\ LET hit    == cache # <<>>
           result == IF hit THEN cache[1] ELSE load_data(file)
       IN  /\ reads' = IF hit THEN reads ELSE reads + 1
           /\ IF result.escaped # ""
                THEN /\ pc' = "crashed"
                     /\ UNCHANGED <<cache, df, messages>>
                ELSE /\ pc' = "loaded"
                     /\ cache' = <<result>>
                     /\ df' = result.frame
                     /\ messages' = IF result.error = "" THEN {} ELSE {result.error}
    /\ UNCHANGED <<file, runs, selected_origin, selected_destination, date_range,
                   top_n, filtered_df, popular_routes, price_trends,
                   demand_analysis, invoked, sorted_before>>

\* lines 302-305: an empty table ends the execution
CheckLoaded ==
    /\ pc = "loaded"
    /\ IF IsEmpty(df)
         THEN /\ messages' = messages \cup {NoDataMessage}
              /\ pc' = "done"
         ELSE /\ messages' = messages
              /\ pc' = "sidebar"
    /\ UNCHANGED <<file, cache, reads, runs, df, selected_origin,
                   selected_destination, date_range, top_n, filtered_df,
                   popular_routes, price_trends, demand_analysis, invoked, sorted_before>>

\* the filter step without the return of line 365
FilterWithoutReturn ==
    /\ pc = "sidebar"
    /\ \E o \in Range(origins(df)), d \in Range(destinations(df)),
          dr \in DateInputs(df) :
            /\ selected_origin' = o
            /\ selected_destination' = d
            /\ date_range' = dr
            /\ filtered_df' = ApplyFilters(df, o, d, dr)
    /\ messages' = IF IsEmpty(filtered_df')
                     THEN messages \cup {NoMatchMessage} ELSE messages
    /\ pc' = "tabs"
    /\ UNCHANGED <<file, cache, reads, runs, df, top_n, popular_routes,
                   price_trends, demand_analysis, invoked, sorted_before>>

\* lines 318-365: the widgets are read, the filters applied and an empty
\* view ends the execution
Filter ==
    /\ pc = "sidebar"
    /\ \E o \in Range(origins(df)), d \in Range(destinations(df)),
          dr \in DateInputs(df) :
            /\ selected_origin' = o
            /\ selected_destination' = d
            /\ date_range' = dr
            /\ filtered_df' = ApplyFilters(df, o, d, dr)
            /\ df' = SourceAfterFilters(df, o, d, dr)
    /\ IF IsEmpty(filtered_df')
         THEN /\ messages' = messages \cup {NoMatchMessage}
              /\ pc' = "done"
         ELSE /\ messages' = messages
              /\ pc' = "tabs"
    /\ UNCHANGED <<file, cache, reads, runs, top_n, popular_routes,
                   price_trends, demand_analysis, invoked, sorted_before>>

\* the chart builder of a tab runs when the aggregate is not empty
Charted(result, builder) == IF result.rows # <<>> THEN {builder} ELSE {}

\* lines 424-569: the three aggregates with their charts, and the export
Render ==
    /\ pc = "tabs"
    /\ top_n' = DefaultTopN
    /\ popular_routes' \in SortedByThisBuild(filtered_df, DefaultTopN, sorted_before)
    /\ sorted_before' = sorted_before \cup
            {[frame |-> filtered_df, n |-> DefaultTopN, result |-> popular_routes']}
    /\ price_trends' \in
            analyze_price_trends(InputAfterGetPopularRoutes(filtered_df))
    /\ demand_analysis' \in
            identify_high_demand_periods(
                InputAfterAnalyzePriceTrends(InputAfterGetPopularRoutes(filtered_df)))
    /\ filtered_df' = InputAfterIdentifyHighDemandPeriods(
                         InputAfterAnalyzePriceTrends(
                           InputAfterGetPopularRoutes(filtered_df)))
    /\ invoked' = {"get_popular_routes", "analyze_price_trends",
                   "identify_high_demand_periods", "to_csv"}
                  \cup Charted(popular_routes', "create_route_popularity_chart")
                  \cup Charted(price_trends', "create_price_trend_chart")
                  \cup Charted(demand_analysis', "create_demand_heatmap")
    /\ pc' = "done"
    /\ UNCHANGED <<file, cache, reads, runs, messages, df, selected_origin,
                   selected_destination, date_range>>

\* an interaction re-executes the script from the top in the same process
Rerun ==
    /\ pc = "done"
    /\ runs < MaxRuns
    /\ runs' = runs + 1
    /\ pc' = "start"
    /\ messages' = {}
    /\ df' = EmptyFrame
    /\ selected_origin' = "All"
    /\ selected_destination' = "All"
    /\ date_range' = <<>>
    /\ filtered_df' = EmptyFrame
    /\ popular_routes' = NotCalled
    /\ price_trends' = NotCalled
    /\ demand_analysis' = NotCalled
    /\ invoked' = {}
    /\ sorted_before' = {}
    /\ UNCHANGED <<file, cache, reads, top_n>>

\* what the file can be replaced by between two executions
Replacements ==
    { [state |-> "absent", rows |-> <<>>],
      [state |-> "ok", rows |-> <<CHOOSE r \in CsvRows : r.booking_id = "B3">>] }

\* the environment deletes or rewrites airline_data.csv between two
\* executions, so before the later one reaches load_data
ChangeFile ==
    /\ pc = "start"
    /\ runs > 1
    /\ file' \in Replacements \ {file}
    /\ UNCHANGED <<cache, reads, runs, pc, messages, df, selected_origin,
                   selected_destination, date_range, top_n, filtered_df,
                   popular_routes, price_trends, demand_analysis, invoked, sorted_before>>

Next ==
    \/ LoadData
    \/ CheckLoaded
    \/ Filter
    \/ Render
    \/ Rerun
    \/ ChangeFile

Spec == Init /\ [][Next]_vars

----------------------------------------------------------------------------
(* Properties of an execution of main *)

\* the filter step of this execution has run
FilterDone ==
    \/ pc = "tabs"
    \/ pc = "done" /\ (NoMatchMessage \in messages \/ invoked # {})

\* the record satisfies every criterion that is set
Matches(r) ==
    /\ selected_origin = "All" \/ r.origin = selected_origin
    /\ selected_destination = "All" \/ r.destination = selected_destination
    /\ \/ Len(date_range) # 2
       \/ /\ DateLeq(date_range[1], r.departure_date)
          /\ DateLeq(r.departure_date, date_range[2])

\* how many rows of s equal r
Occurrences(s, r) == Cardinality({i \in 1..Len(s) : s[i] = r})

\* C1: after the filter step, a record of the loaded table is in the
\* filtered view if and only if it matches every criterion that is set
\* (origin, destination, date range), as often as it is in the table; a
\* criterion left at 'All' or unset removes nothing.
C1_FilterKeepsExactlyMatches ==
    FilterDone =>
        /\ \A r \in Range(df.rows) :
              Occurrences(filtered_df.rows, r)
                = (IF Matches(r) THEN Occurrences(df.rows, r) ELSE 0)
        /\ Range(filtered_df.rows) \subseteq Range(df.rows)
        /\ (selected_origin = "All" /\ selected_destination = "All"
            /\ Len(date_range) # 2) => filtered_df = df

\* all three criteria are set, and they keep some records and remove others
C1_Witness ==
    /\ FilterDone
    /\ selected_origin # "All"
    /\ selected_destination # "All"
    /\ Len(date_range) = 2
    /\ filtered_df.rows # <<>>
    /\ Len(filtered_df.rows) < Len(df.rows)
    /\ \E r \in Range(df.rows) :
          /\ r.origin = selected_origin
          /\ r.destination = selected_destination
          /\ r \notin Range(filtered_df.rows)

\* a is b with some rows left out, the others in their order
RECURSIVE IsSubsequence(_, _)
IsSubsequence(a, b) ==
    IF a = <<>> THEN TRUE
    ELSE IF b = <<>> THEN FALSE
    ELSE IF Head(a) = Head(b) THEN IsSubsequence(Tail(a), Tail(b))
    ELSE IsSubsequence(a, Tail(b))

\* C2: the filtered view is a sub-sequence of the loaded table (its rows are
\* rows of the table, in the table's order), and filtering the view again
\* with the same criteria returns the view unchanged.
C2_FilterSubsequenceIdempotent ==
    FilterDone =>
        /\ IsSubsequence(filtered_df.rows, df.rows)
        /\ ApplyFilters(filtered_df, selected_origin, selected_destination,
                        date_range) = filtered_df

\* a criterion is set, two different records are kept and one is removed
C2_Witness ==
    /\ FilterDone
    /\ selected_origin # "All" \/ selected_destination # "All"
    /\ Len(filtered_df.rows) >= 2
    /\ filtered_df.rows[1] # filtered_df.rows[2]
    /\ Len(filtered_df.rows) < Len(df.rows)

\* the first execution has called load_data on the file as it still is
FirstLoadDone == runs = 1 /\ pc \in {"loaded", "sidebar", "tabs", "done"}

AnyAggregateCalled ==
    \/ invoked # {}
    \/ popular_routes.called
    \/ price_trends.called
    \/ demand_analysis.called

\* C10: an execution whose loaded table or filtered view is empty ends
\* without calling an aggregator, a chart builder or the export; these are
\* called only when both the table and the view have rows.
C10_EmptyTableIsTerminal ==
    /\ (IsEmpty(df) \/ IsEmpty(filtered_df)) => ~AnyAggregateCalled
    /\ pc = "sidebar" => ~IsEmpty(df)
    /\ pc = "tabs" => ~IsEmpty(df) /\ ~IsEmpty(filtered_df)
    /\ (pc = "done" /\ ~AnyAggregateCalled) =>
          NoDataMessage \in messages \/ NoMatchMessage \in messages

\* a loaded table with rows, a filter that matches none of them, and the
\* execution over with nothing aggregated
C10_Witness ==
    /\ pc = "done"
    /\ ~IsEmpty(df)
    /\ IsEmpty(filtered_df)
    /\ NoMatchMessage \in messages
    /\ ~AnyAggregateCalled

\* the execution has got its table from load_data
TableLoaded == pc \in {"loaded", "sidebar", "tabs", "done"}

\* C12: over the executions of main in one process the file is read at most
\* once: the first call of load_data runs its body and stores the result,
\* a failed load's empty table included; every later call returns the stored
\* table, whatever the file has become, so every execution sees the table
\* of the first.
C12_SourceReadOnce ==
    [][ /\ reads' <= 1
        /\ cache # <<>> => cache' = cache /\ reads' = reads
        /\ (pc = "start" /\ pc' # "start") =>
              /\ pc' = "loaded"
              /\ cache' # <<>>
              /\ df' = cache'[1].frame
              /\ cache = <<>> => cache'[1] = load_data(file) ]_vars

\* a later execution has its table from the cache although the file has
\* been replaced since the table was read
C12_Witness ==
    /\ runs = 2
    /\ TableLoaded
    /\ reads = 1
    /\ cache # <<>>
    /\ df = cache[1].frame
    /\ load_data(file).frame # df

\* the invariants of a BookingRecord
ValidRecord(r) ==
    /\ r.origin # ""
    /\ r.destination # ""
    /\ r.origin # r.destination
    /\ r.price > 0
    /\ r.passengers >= 1
    /\ DateLeq(r.booking_date, r.departure_date)

\* C13 as stated: every record of the table load_data returns, and so every
\* record that reaches the filter and the aggregators, has non-empty and
\* different origin and destination, price > 0, passengers >= 1 and
\* booking_date <= departure_date (days_ahead >= 0).
C13_LoadedRecordsAreValid ==
    /\ TableLoaded => \A r \in Range(df.rows) : ValidRecord(r)
    /\ \A r \in Range(filtered_df.rows) : ValidRecord(r)

\* the filter of the sidebar on origin and destination alone
OriginDestinationView ==
    SelectSeq(df.rows, LAMBDA r :
        /\ selected_origin = "All" \/ r.origin = selected_origin
        /\ selected_destination = "All" \/ r.destination = selected_destination)

\* d is neither before the first nor after the second date of the input
WithinDateRange(d) ==
    ~(\/ d[1] < date_range[1][1]
      \/ d[1] = date_range[1][1] /\ d[2] < date_range[1][2]
      \/ d[1] = date_range[1][1] /\ d[2] = date_range[1][2] /\ d[3] < date_range[1][3]
      \/ d[1] > date_range[2][1]
      \/ d[1] = date_range[2][1] /\ d[2] > date_range[2][2]
      \/ d[1] = date_range[2][1] /\ d[2] = date_range[2][2] /\ d[3] > date_range[2][3])

\* C14: the date constraint applies only when the date input holds exactly
\* two dates, and then the view is the origin/destination-filtered table
\* cut to the records with start <= departure date <= end, both bounds
\* included; with fewer than two dates the view is the
\* origin/destination-filtered table, with no date constraint.
C14_DateConstraintNeedsTwoDates ==
    FilterDone =>
        /\ Len(date_range) \in {0, 1, 2}
        /\ Len(date_range) = 2 =>
              filtered_df.rows =
                SelectSeq(OriginDestinationView,
                          LAMBDA r : WithinDateRange(r.departure_date))
        /\ Len(date_range) < 2 => filtered_df.rows = OriginDestinationView

\* only a start date is picked, and a record that departs on another day
\* is in the view
C14_Witness ==
    /\ FilterDone
    /\ Len(date_range) = 1
    /\ \E r \in Range(filtered_df.rows) : r.departure_date # date_range[1]

\* start and end are picked, records departing on the start and on the end
\* day are in the view, and a record outside the range is not
C14_BoundsIncluded ==
    /\ FilterDone
    /\ Len(date_range) = 2
    /\ date_range[1] # date_range[2]
    /\ \E r \in Range(filtered_df.rows) : r.departure_date = date_range[1]
    /\ \E r \in Range(filtered_df.rows) : r.departure_date = date_range[2]
    /\ Len(filtered_df.rows) < Len(OriginDestinationView)

----------------------------------------------------------------------------
(* The aggregators called directly, on any table and any top_n *)

\* the frames an aggregator can be handed: pd.DataFrame() and every frame
\* with the columns of load_data, the one without rows included
Tables ==
    {EmptyFrame} \cup {load_data([state |-> "ok", rows |-> rows]).frame :
                          rows \in RowSeqs(MaxRows)}

TopNs == ((0 - MaxTopN)..MaxTopN) \cup {DefaultTopN}

InitAgg ==
    /\ df \in Tables
    /\ top_n \in TopNs
    /\ pc = "aggregate"
    /\ file = [state |-> "absent", rows |-> <<>>]
    /\ cache = <<>>
    /\ reads = 0
    /\ runs = 0
    /\ messages = {}
    /\ selected_origin = "All"
    /\ selected_destination = "All"
    /\ date_range = <<>>
    /\ filtered_df = df
    /\ popular_routes = NotCalled
    /\ price_trends = NotCalled
    /\ demand_analysis = NotCalled
    /\ invoked = {}
    /\ sorted_before = {}

\* a call of get_popular_routes(df, top_n); it can be made again
CallGetPopularRoutes ==
    /\ pc = "aggregate"
    /\ popular_routes' \in SortedByThisBuild(df, top_n, sorted_before)
    /\ sorted_before' = sorted_before \cup
            {[frame |-> df, n |-> top_n, result |-> popular_routes']}
    /\ df' = InputAfterGetPopularRoutes(df)
    /\ invoked' = invoked \cup {"get_popular_routes"}
    /\ UNCHANGED <<file, cache, reads, runs, pc, messages, selected_origin,
                   selected_destination, date_range, top_n, filtered_df,
                   price_trends, demand_analysis>>

CallAnalyzePriceTrends ==
    /\ pc = "aggregate"
    /\ price_trends' \in analyze_price_trends(df)
    /\ df' = InputAfterAnalyzePriceTrends(df)
    /\ invoked' = invoked \cup {"analyze_price_trends"}
    /\ UNCHANGED <<file, cache, reads, runs, pc, messages, selected_origin,
                   selected_destination, date_range, top_n, filtered_df,
                   popular_routes, demand_analysis, sorted_before>>

CallIdentifyHighDemandPeriods ==
    /\ pc = "aggregate"
    /\ demand_analysis' \in identify_high_demand_periods(df)
    /\ df' = InputAfterIdentifyHighDemandPeriods(df)
    /\ invoked' = invoked \cup {"identify_high_demand_periods"}
    /\ UNCHANGED <<file, cache, reads, runs, pc, messages, selected_origin,
                   selected_destination, date_range, top_n, filtered_df,
                   popular_routes, price_trends, sorted_before>>

NextAgg ==
    \/ CallGetPopularRoutes
    \/ CallAnalyzePriceTrends
    \/ CallIdentifyHighDemandPeriods

SpecAgg == InitAgg /\ [][NextAgg]_vars

----------------------------------------------------------------------------
(* Properties of the aggregators *)

RoutesReturned == popular_routes.called /\ popular_routes.raised = ""

\* the indices of the input rows on a route, in a month, on a weekday
RowsOnRoute(route) == {i \in 1..Len(df.rows) : df.rows[i].route = route}

RowsInMonth(month) == {i \in 1..Len(df.rows) : df.rows[i].month = month}

RowsOnDay(day) == {i \in 1..Len(df.rows) : df.rows[i].day_of_week = day}

\* the total of a column of the input over a set of row indices
RECURSIVE Total(_, _)
Total(indices, col) ==
    IF indices = {} THEN 0
    ELSE LET i == CHOOSE j \in indices : TRUE
         IN  df.rows[i][col] + Total(indices \ {i}, col)

DistinctRoutes == {df.rows[i].route : i \in 1..Len(df.rows)}

\* what C3 has in common for every top_n: one row per route, bookings never
\* increasing down the rows, and no more bookings in all than input rows
RoutesOrderedAndBounded ==
    LET out == popular_routes.rows
    IN  /\ \A i, j \in 1..Len(out) : i # j => out[i].Route # out[j].Route
        /\ \A i \in 1..Len(out) : out[i].Route \in DistinctRoutes
        /\ \A i \in 1..(Len(out) - 1) :
              out[i].Total_Bookings >= out[i + 1].Total_Bookings
        /\ Sum(Column(out, "Total_Bookings")) <= Len(df.rows)

\* C3 as stated: for every table and every top_n, get_popular_routes returns
\* at most top_n rows, one per distinct route, with Total_Bookings never
\* increasing from a row to the next and summing to at most the number of
\* input rows.
C3_AtMostTopNForEveryTopN ==
    RoutesReturned =>
        /\ Len(popular_routes.rows) <= top_n
        /\ RoutesOrderedAndBounded

\* C3 amended: the same for every top_n >= 0; for top_n < 0 head() returns
\* all but the last -top_n rows of the sorted table, and the other three
\* properties still hold.
C3_AtMostTopNForNonNegativeTopN ==
    RoutesReturned =>
        /\ top_n >= 0 => Len(popular_routes.rows) <= top_n
        /\ top_n < 0 =>
              Len(popular_routes.rows)
                = Max2(Cardinality(DistinctRoutes) + top_n, 0)
        /\ RoutesOrderedAndBounded

\* a truncating call: more routes than top_n, and rows of the input that
\* the returned routes do not count
C3_Witness ==
    /\ RoutesReturned
    /\ top_n >= 1
    /\ Cardinality(DistinctRoutes) > top_n
    /\ Len(popular_routes.rows) = top_n
    /\ Sum(Column(popular_routes.rows, "Total_Bookings")) < Len(df.rows)

\* the routes of the grouped table that the result leaves out
LeftOut ==
    {g \in Range(RouteGroups(df.rows)) : g \notin Range(popular_routes.rows)}

\* C4 as stated: routes with equal Total_Bookings appear in the order they
\* had in the grouped table (ascending route label), and of tied routes at
\* the cut the earlier ones of the grouped table survive (stated for the
\* calls with top_n >= 0).
C4_TiesKeepGroupedOrder ==
    (RoutesReturned /\ top_n >= 0) =>
        LET out == popular_routes.rows
        IN  /\ \A i, j \in 1..Len(out) :
                  (i < j /\ out[i].Total_Bookings = out[j].Total_Bookings)
                    => RouteLess(out[i].Route, out[j].Route)
            /\ \A k \in Range(out), g \in LeftOut :
                  k.Total_Bookings = g.Total_Bookings
                    => RouteLess(k.Route, g.Route)

\* C4 amended: the order of routes with equal Total_Bookings is not
\* determined (the sort is not a stable one); the result is the first rows
\* of some ordering of the grouped table by non-increasing Total_Bookings,
\* so every returned route has at least as many bookings as every route
\* left out, and which of the routes tied at the cut survive is open.
C4_CutKeepsLargestCounts ==
    RoutesReturned =>
        LET out == popular_routes.rows
        IN  /\ Range(out) \subseteq Range(RouteGroups(df.rows))
            /\ Len(out) = Len(head(RouteGroups(df.rows), top_n))
            /\ \A k \in Range(out), g \in LeftOut :
                  k.Total_Bookings >= g.Total_Bookings

\* a tie at the cut decided against the grouped order: a returned route and
\* a route left out have the same bookings, and the one left out came first
\* in the grouped table
C4_Witness ==
    /\ RoutesReturned
    /\ top_n >= 1
    /\ \E k \in Range(popular_routes.rows), g \in LeftOut :
          /\ k.Total_Bookings = g.Total_Bookings
          /\ RouteLess(g.Route, k.Route)

\* the three records of the example of C5, as load_data returns them
ExampleRows ==
    [i \in 1..3 |->
        DeriveColumns(CHOOSE r \in CsvRows : r.booking_id = <<"B1", "B2", "B3">>[i])]

TrendsReturned == price_trends.called /\ price_trends.raised = ""

DemandReturned == demand_analysis.called /\ demand_analysis.raised = ""

\* the place of a weekday name in the week, Monday first
PlaceInWeek(name) ==
    CASE name = "Monday" -> 1 [] name = "Tuesday" -> 2 [] name = "Wednesday" -> 3
      [] name = "Thursday" -> 4 [] name = "Friday" -> 5 [] name = "Saturday" -> 6
      [] name = "Sunday" -> 7

\* C7: identify_high_demand_periods returns exactly one row for each weekday
\* name of the input, none for a weekday that does not occur, and the rows
\* are in the order Monday, Tuesday, ..., Sunday.
C7_WeekdayRows ==
    DemandReturned =>
        LET out == demand_analysis.rows
        IN  /\ {out[i].Day_of_Week : i \in 1..Len(out)}
                 = {df.rows[i].day_of_week : i \in 1..Len(df.rows)}
            /\ \A i \in 1..(Len(out) - 1) :
                  PlaceInWeek(out[i].Day_of_Week) < PlaceInWeek(out[i + 1].Day_of_Week)
            /\ \A i \in 1..Len(out) :
                  out[i].Total_Bookings = Cardinality(RowsOnDay(out[i].Day_of_Week))

\* Tuesday comes out before Saturday although 'Saturday' < 'Tuesday' as
\* strings, and some weekday is absent
C7_Witness ==
    /\ DemandReturned
    /\ \E i, j \in 1..Len(demand_analysis.rows) :
          /\ i < j
          /\ demand_analysis.rows[i].Day_of_Week = "Tuesday"
          /\ demand_analysis.rows[j].Day_of_Week = "Saturday"
    /\ Len(demand_analysis.rows) < 7

\* C8 as stated: each aggregator, given an empty table (pd.DataFrame() of a
\* failed load included), returns an empty result and raises nothing.
C8_EmptyInEmptyOut ==
    IsEmpty(df) =>
        /\ popular_routes.called =>
              popular_routes.raised = "" /\ popular_routes.rows = <<>>
        /\ price_trends.called =>
              price_trends.raised = "" /\ price_trends.rows = <<>>
        /\ demand_analysis.called =>
              demand_analysis.raised = "" /\ demand_analysis.rows = <<>>

----------------------------------------------------------------------------
(* A loaded table in use: the filters change and the aggregators are
   called, any number of times in any order *)

\* the bookings of CsvRows in the order of their ids
BookingIds == <<"B1", "B2", "B3", "B4", "B5">>

BookingNo(r) == CHOOSE i \in DOMAIN BookingIds : BookingIds[i] = r.booking_id

\* the files explored here: well formed, with at least one row (main goes
\* on past line 305), each booking at most once and in the order of the ids
LoadedFiles ==
    {f \in Files :
        /\ f.state = "ok"
        /\ f.rows # <<>>
        /\ \A i, j \in DOMAIN f.rows :
              i < j => BookingNo(f.rows[i]) < BookingNo(f.rows[j])}

\* the state after lines 297-305 of the first execution, the widgets at
\* their defaults (line 340: the date input starts at the whole range)
InitFrame ==
    /\ file \in LoadedFiles
    /\ cache = <<load_data(file)>>
    /\ reads = 1
    /\ runs = 1
    /\ pc = "aggregate"
    /\ messages = {}
    /\ df = cache[1].frame
    /\ selected_origin = "All"
    /\ selected_destination = "All"
    /\ date_range = <<min_date(df), max_date(df)>>
    /\ top_n = DefaultTopN
    /\ filtered_df = df
    /\ popular_routes = NotCalled
    /\ price_trends = NotCalled
    /\ demand_analysis = NotCalled
    /\ invoked = {}
    /\ sorted_before = {}

\* lines 318-360 on an interaction with one of the three widgets: the
\* script runs with the new value and the view is derived anew from the
\* loaded table
ChangeFilters ==
    /\ pc = "aggregate"
    /\ \E o \in Range(origins(df)), d \in Range(destinations(df)),
          dr \in DateInputs(df) :
            /\ \/ o # selected_origin /\ d = selected_destination /\ dr = date_range
               \/ o = selected_origin /\ d # selected_destination /\ dr = date_range
               \/ o = selected_origin /\ d = selected_destination /\ dr # date_range
            /\ selected_origin' = o
            /\ selected_destination' = d
            /\ date_range' = dr
            /\ filtered_df' = ApplyFilters(df, o, d, dr)
            /\ df' = SourceAfterFilters(df, o, d, dr)
    /\ UNCHANGED <<file, cache, reads, runs, pc, messages, top_n,
                   popular_routes, price_trends, demand_analysis, invoked,
                   sorted_before>>

NextFrame ==
    \/ ChangeFilters
    \/ CallGetPopularRoutes
    \/ CallAnalyzePriceTrends
    \/ CallIdentifyHighDemandPeriods

SpecFrame == InitFrame /\ [][NextFrame]_vars

====
